---------------------------- MODULE Spec2Model ----------------------------
(***************************************************************************)
(* A model of the toy SSA optimizer of src/main.py: Values (Operation and  *)
(* Constant objects on a heap), the union-find forwarding of Operations,   *)
(* the Block builder, the passes constfold, common_subexpr_elimination,    *)
(* strength_reduce and optimise (one loop iteration per step), and         *)
(* bb_to_str.                                                              *)
(***************************************************************************)
EXTENDS Integers, Sequences, FiniteSets, TLC

(* ------------------------------ bounds --------------------------------- *)
\* longest block the builder makes
MaxOps == 3
\* most pass applications in one run
MaxPasses == 2
\* most dummy operations built for the direct union-find calls
MaxDummies == 3
\* most direct make_equal_to calls in one run
MaxCalls == 3

\* the raw integers handed to the builders
IntArgs == {0, 1}
\* the values an opaque input (getarg, dummy) may take when a block is evaluated
InputVals == {-1, 2}

VARIABLES
    ops,      \* heap of Operation objects: id -> [name, args, forwarded]
    consts,   \* heap of Constant objects: id -> value
    blocks,   \* the Blocks the caller holds: blocks[1] is built, the rest were returned by passes
    pc,       \* "idle", the name of the pass that is running, or "hang"
    inp,      \* the running pass's parameter bb
    idx,      \* position of the running pass's for loop in inp
    opt_bb,   \* the running pass's output block
    hist      \* the calls that have completed, in order, each with its outcome

vars == <<ops, consts, blocks, pc, inp, idx, opt_bb, hist>>

(* --------------------------- Value references -------------------------- *)
None == [k |-> "none", id |-> 0]
OpRef(i) == [k |-> "op", id |-> i]
ConstRef(i) == [k |-> "const", id |-> i]
\* the outcome of a find() whose while loop never ends
Diverge == [k |-> "diverge", id |-> 0]
Raw(n) == [k |-> "raw", id |-> n]

IsConstant(v) == v.k = "const"
IsOperation(v) == v.k = "op"

Operation(name, args) == [name |-> name, args |-> args, forwarded |-> None]

(* ------------------------------ union-find ----------------------------- *)
RECURSIVE findFrom(_, _, _)
findFrom(os, v, fuel) ==
    IF ~IsOperation(v) THEN v
    ELSE LET next == os[v.id].forwarded IN
         IF next = None THEN v
         ELSE IF fuel = 0 THEN Diverge
         ELSE findFrom(os, next, fuel - 1)

\* faulty variant: one hop only, no loop
find_onehop(os, v) ==
    IF IsOperation(v) /\ os[v.id].forwarded # None THEN os[v.id].forwarded ELSE v

\* Operation.find / Constant.find; a chain longer than the heap is a cycle
find(os, v) == findFrom(os, v, Len(os))

arg(os, o, index) == find(os, os[o].args[index])

Operation_set_forwarded(os, o, value) == [os EXCEPT ![o].forwarded = value]

\* faulty variant: the assertion checks the type only
Constant_set_forwarded_typeonly(cs, c, value) == IsConstant(value)

\* TRUE iff the assertion of Constant._set_forwarded passes
Constant_set_forwarded(cs, c, value) ==
    IsConstant(value) /\ cs[value.id] = cs[c]

\* faulty variant: forwards self, not its representative
make_equal_to_noroot(os, cs, self, value) ==
    [ops |-> Operation_set_forwarded(os, self.id, value), status |-> "ok"]

make_equal_to(os, cs, self, value) ==
    LET r == find(os, self) IN
    IF r = Diverge THEN [ops |-> os, status |-> "hang"]
    ELSE IF IsConstant(r)
         THEN [ops |-> os,
               status |-> IF Constant_set_forwarded(cs, r.id, value)
                          THEN "ok" ELSE "raise"]
         ELSE [ops |-> Operation_set_forwarded(os, r.id, value), status |-> "ok"]

eq_value(cs, val0, val1) ==
    IF IsConstant(val0) /\ IsConstant(val1)
    THEN cs[val0.id] = cs[val1.id]
    ELSE val0 = val1

\* result: the emitted add found, None, or Diverge when an arg() call never returns
RECURSIVE find_prev_from(_, _, _, _, _, _)
find_prev_from(os, cs, arg0, arg1, bb, i) ==
    IF i > Len(bb) THEN None
    ELSE LET opt_op == bb[i] IN
         IF os[opt_op].name # "add"
         THEN find_prev_from(os, cs, arg0, arg1, bb, i + 1)
         ELSE LET a0 == arg(os, opt_op, 1) IN
              IF a0 = Diverge THEN Diverge
              ELSE IF ~eq_value(cs, arg0, a0)
              THEN find_prev_from(os, cs, arg0, arg1, bb, i + 1)
              ELSE LET a1 == arg(os, opt_op, 2) IN
                   IF a1 = Diverge THEN Diverge
                   ELSE IF eq_value(cs, arg1, a1) THEN OpRef(opt_op)
                   ELSE find_prev_from(os, cs, arg0, arg1, bb, i + 1)

\* faulty variant: also matches an emitted add with the arguments swapped
find_prev_add_op_commutative(os, cs, arg0, arg1, bb) ==
    LET straight == find_prev_from(os, cs, arg0, arg1, bb, 1) IN
    IF straight # None THEN straight ELSE find_prev_from(os, cs, arg1, arg0, bb, 1)

find_prev_add_op(os, cs, arg0, arg1, bb) == find_prev_from(os, cs, arg0, arg1, bb, 1)

(* ------------------------- one loop iteration -------------------------- *)
\* A frame f is [ops, consts, opt_bb, status]: the heap and the output block
\* of the running pass, and how the iteration ended: "ok", "raise" or "hang".
Frame(os, cs, bb, st) == [ops |-> os, consts |-> cs, opt_bb |-> bb, status |-> st]

Hang(f) == [f EXCEPT !.status = "hang"]
Emit(f, o) == [f EXCEPT !.opt_bb = Append(f.opt_bb, o)]

\* op.make_equal_to(value); continue
Union(f, cs, bb, o, value) ==
    LET r == make_equal_to(f.ops, cs, OpRef(o), value) IN
    Frame(r.ops, cs, bb, r.status)

\* op.make_equal_to(Constant(arg0.value + arg1.value)); continue
Fold(f, o, arg0, arg1) ==
    LET cs2 == Append(f.consts, f.consts[arg0.id] + f.consts[arg1.id]) IN
    Union(f, cs2, f.opt_bb, o, ConstRef(Len(cs2)))

\* newop = opt_bb.lshift(arg0, 1); op.make_equal_to(newop); continue
\* faulty variant: shifts by two
Reduce_shift2(f, o, arg0) ==
    LET cs2 == Append(f.consts, 2)
        newop == Len(f.ops) + 1
        os2 == Append(f.ops, Operation("lshift", <<arg0, ConstRef(Len(cs2))>>))
    IN Union([f EXCEPT !.ops = os2], cs2, Append(f.opt_bb, newop), o, OpRef(newop))

Reduce(f, o, arg0) ==
    LET cs2 == Append(f.consts, 1)
        newop == Len(f.ops) + 1
        os2 == Append(f.ops, Operation("lshift", <<arg0, ConstRef(Len(cs2))>>))
    IN Union([f EXCEPT !.ops = os2], cs2, Append(f.opt_bb, newop), o, OpRef(newop))

\* faulty variant: folds to the first argument's value
ConstfoldStep_nosum(f, o) ==
    IF f.ops[o].name = "add"
       /\ IsConstant(arg(f.ops, o, 1)) /\ IsConstant(arg(f.ops, o, 2))
    THEN LET cs2 == Append(f.consts, f.consts[arg(f.ops, o, 1).id]) IN
         Union(f, cs2, f.opt_bb, o, ConstRef(Len(cs2)))
    ELSE Emit(f, o)

ConstfoldStep(f, o) ==
    IF f.ops[o].name = "add"
    THEN LET arg0 == arg(f.ops, o, 1) IN
         IF arg0 = Diverge THEN Hang(f)
         ELSE LET arg1 == arg(f.ops, o, 2) IN
              IF arg1 = Diverge THEN Hang(f)
              ELSE IF IsConstant(arg0) /\ IsConstant(arg1)
                   THEN Fold(f, o, arg0, arg1)
                   ELSE Emit(f, o)
    ELSE Emit(f, o)

\* faulty variant: the union goes the other way, prev_op.make_equal_to(op)
CseStep_reversed(f, o) ==
    IF f.ops[o].name = "add"
    THEN LET prev_op == find_prev_add_op(f.ops, f.consts, arg(f.ops, o, 1),
                                         arg(f.ops, o, 2), f.opt_bb) IN
         IF prev_op # None
         THEN Frame(make_equal_to(f.ops, f.consts, prev_op, OpRef(o)).ops,
                    f.consts, f.opt_bb, "ok")
         ELSE Emit(f, o)
    ELSE Emit(f, o)

CseStep(f, o) ==
    IF f.ops[o].name = "add"
    THEN LET arg0 == arg(f.ops, o, 1) IN
         IF arg0 = Diverge THEN Hang(f)
         ELSE LET arg1 == arg(f.ops, o, 2) IN
              IF arg1 = Diverge THEN Hang(f)
              ELSE LET prev_op == find_prev_add_op(f.ops, f.consts, arg0, arg1, f.opt_bb) IN
                   IF prev_op = Diverge THEN Hang(f)
                   ELSE IF prev_op # None
                        THEN Union(f, f.consts, f.opt_bb, o, prev_op)
                        ELSE Emit(f, o)
    ELSE Emit(f, o)

\* faulty variant: compares the arguments with eq_value, not by identity
StrengthReduceStep_eq(f, o) ==
    IF f.ops[o].name = "add"
       /\ eq_value(f.consts, arg(f.ops, o, 1), arg(f.ops, o, 2))
    THEN Reduce(f, o, arg(f.ops, o, 1))
    ELSE Emit(f, o)

StrengthReduceStep(f, o) ==
    IF f.ops[o].name = "add"
    THEN LET arg0 == arg(f.ops, o, 1) IN
         IF arg0 = Diverge THEN Hang(f)
         ELSE LET arg1 == arg(f.ops, o, 2) IN
              IF arg1 = Diverge THEN Hang(f)
              ELSE IF arg0 = arg1
                   THEN Reduce(f, o, arg0)
                   ELSE Emit(f, o)
    ELSE Emit(f, o)

\* eq_value(a, Constant(0)): the Constant(0) is a new object, dropped after the test
EqZero(cs, a) ==
    LET cs2 == Append(cs, 0) IN eq_value(cs2, a, ConstRef(Len(cs2)))

\* faulty variant: a + 0 is united with the 0, not with a
OptimiseStep_zero(f, o) ==
    IF f.ops[o].name = "add"
    THEN LET arg0 == arg(f.ops, o, 1)
             arg1 == arg(f.ops, o, 2)
             prev_op == find_prev_add_op(f.ops, f.consts, arg0, arg1, f.opt_bb)
         IN IF IsConstant(arg0) /\ IsConstant(arg1) THEN Fold(f, o, arg0, arg1)
            ELSE IF prev_op # None THEN Union(f, f.consts, f.opt_bb, o, prev_op)
            ELSE IF arg0 = arg1 THEN Reduce(f, o, arg0)
            ELSE IF EqZero(f.consts, arg0) THEN Union(f, f.consts, f.opt_bb, o, arg0)
            ELSE IF EqZero(f.consts, arg1) THEN Union(f, f.consts, f.opt_bb, o, arg1)
            ELSE Emit(f, o)
    ELSE Emit(f, o)

OptimiseStep(f, o) ==
    IF f.ops[o].name = "add"
    THEN LET arg0 == arg(f.ops, o, 1) IN
         IF arg0 = Diverge THEN Hang(f)
         ELSE LET arg1 == arg(f.ops, o, 2) IN
              IF arg1 = Diverge THEN Hang(f)
              ELSE IF IsConstant(arg0) /\ IsConstant(arg1)
                   THEN Fold(f, o, arg0, arg1)
                   ELSE LET prev_op == find_prev_add_op(f.ops, f.consts, arg0, arg1, f.opt_bb) IN
                        IF prev_op = Diverge THEN Hang(f)
                        ELSE IF prev_op # None
                             THEN Union(f, f.consts, f.opt_bb, o, prev_op)
                        ELSE IF arg0 = arg1
                             THEN Reduce(f, o, arg0)
                        ELSE IF EqZero(f.consts, arg0)
                             THEN Union(f, f.consts, f.opt_bb, o, arg1)
                        ELSE IF EqZero(f.consts, arg1)
                             THEN Union(f, f.consts, f.opt_bb, o, arg0)
                        ELSE Emit(f, o)
    ELSE Emit(f, o)

Passes == {"constfold", "cse", "strength_reduce", "optimise"}

Step(p, f, o) ==
    CASE p = "constfold" -> ConstfoldStep(f, o)
      [] p = "cse" -> CseStep(f, o)
      [] p = "strength_reduce" -> StrengthReduceStep(f, o)
      [] p = "optimise" -> OptimiseStep(f, o)

(* ------------------------------- builder ------------------------------- *)
\* wraparg: a raw argument becomes a new Constant, a Value is passed through
wraparg(cs, a) ==
    IF a.k = "raw"
    THEN [consts |-> Append(cs, a.id), ref |-> ConstRef(Len(cs) + 1)]
    ELSE [consts |-> cs, ref |-> a]

RECURSIVE wrapargs(_, _, _)
wrapargs(cs, args, done) ==
    IF Len(done) = Len(args) THEN [consts |-> cs, args |-> done]
    ELSE LET w == wraparg(cs, args[Len(done) + 1]) IN
         wrapargs(w.consts, args, Append(done, w.ref))

\* build of opbuilder: op = Operation(opname, wrapped args); self.append(op)
build(os, cs, opname, args) ==
    LET w == wrapargs(cs, args, <<>>) IN
    [ops |-> Append(os, Operation(opname, w.args)), consts |-> w.consts]

(* ------------------------------ rendering ------------------------------ *)
\* arg_to_str: a literal, the name given to the operation, or a KeyError
arg_to_str(cs, varnames, a) ==
    IF IsConstant(a) THEN [k |-> "lit", v |-> cs[a.id]]
    ELSE IF IsOperation(a) /\ a.id \in DOMAIN varnames
         THEN [k |-> "var", v |-> varnames[a.id]]
         ELSE [k |-> "KeyError", v |-> 0]

RECURSIVE bb_to_str_from(_, _, _, _, _, _)
bb_to_str_from(os, cs, bb, i, varnames, res) ==
    IF i > Len(bb) THEN [status |-> "ok", lines |-> res]
    ELSE LET op == bb[i]
             names == (op :> (i - 1)) @@ varnames
             arguments == [j \in DOMAIN os[op].args |->
                              arg_to_str(cs, names, arg(os, op, j))]
         IN IF \E j \in DOMAIN arguments : arguments[j].k = "KeyError"
            THEN [status |-> "KeyError", lines |-> res]
            ELSE bb_to_str_from(os, cs, bb, i + 1, names,
                    Append(res, [var |-> i - 1, name |-> os[op].name,
                                 arguments |-> arguments]))

\* one line [var, name, arguments] per operation, or the KeyError of a name not given yet
bb_to_str(os, cs, bb) == bb_to_str_from(os, cs, bb, 1, <<>>, <<>>)

(* ------------------------------- actions ------------------------------- *)
Init ==
    /\ ops = <<>>
    /\ consts = <<>>
    /\ blocks = << <<>> >>
    /\ pc = "idle"
    /\ inp = <<>>
    /\ idx = 0
    /\ opt_bb = <<>>
    /\ hist = <<>>

Entry(fn, self, value, raised) ==
    [fn |-> fn, self |-> self, value |-> value, raised |-> raised]

Range(s) == {s[i] : i \in DOMAIN s}

\* what a caller may pass to a binary builder: an operation of the block, or a raw integer
Atoms == {OpRef(o) : o \in Range(blocks[1])} \cup {Raw(n) : n \in IntArgs}

BuilderArgs(opname) ==
    CASE opname = "getarg" -> {<<Raw(0)>>}
      [] opname = "add" -> {<<a, b>> : a \in Atoms, b \in Atoms}
      [] opname = "mul" -> {<<OpRef(a), OpRef(a)>> : a \in Range(blocks[1])}

\* like the blocks of the tests, a block begins with a getarg
BuilderNames == IF blocks[1] = <<>> THEN {"getarg"} ELSE {"getarg", "add", "mul"}

Appended(os, cs) ==
    /\ ops' = os
    /\ consts' = cs
    /\ blocks' = [blocks EXCEPT ![1] = Append(@, Len(os))]
    /\ UNCHANGED <<pc, inp, idx, opt_bb, hist>>

\* bb.getarg(..), bb.add(..), bb.mul(..) on the block under construction
Build ==
    /\ pc = "idle" /\ Len(blocks) = 1 /\ hist = <<>>
    /\ Len(blocks[1]) < MaxOps
    /\ \E opname \in BuilderNames : \E args \in BuilderArgs(opname) :
          LET b == build(ops, consts, opname, args) IN Appended(b.ops, b.consts)

\* c = Constant(v); bb.add(c, c): the caller passes one Constant object twice
BuildShared ==
    /\ pc = "idle" /\ Len(blocks) = 1 /\ hist = <<>>
    /\ 0 < Len(blocks[1]) /\ Len(blocks[1]) < MaxOps
    /\ \E v \in {1} :
          LET cs1 == Append(consts, v)
              c == ConstRef(Len(cs1))
              b == build(ops, cs1, "add", <<c, c>>)
          IN Appended(b.ops, b.consts)

\* a1 = bb.dummy(1); a2 = bb.dummy(2); ...
BuildDummy ==
    /\ pc = "idle" /\ Len(blocks) = 1 /\ hist = <<>>
    /\ Len(blocks[1]) < MaxDummies
    /\ LET b == build(ops, consts, "dummy", <<Raw(Len(blocks[1]) + 1)>>)
       IN Appended(b.ops, b.consts)

\* a pass is called on block b
PassCall(p, b) ==
    /\ pc = "idle" /\ Len(hist) < MaxPasses
    /\ pc' = p
    /\ inp' = blocks[b]
    /\ idx' = 1
    /\ opt_bb' = <<>>
    /\ UNCHANGED <<ops, consts, blocks, hist>>

\* one iteration of the for loop of pass p
Iterate(p) ==
    /\ pc = p /\ idx <= Len(inp)
    /\ LET f == Step(p, Frame(ops, consts, opt_bb, "ok"), inp[idx]) IN
       /\ ops' = f.ops
       /\ consts' = f.consts
       /\ UNCHANGED blocks
       /\ CASE f.status = "ok" ->
                 /\ opt_bb' = f.opt_bb
                 /\ idx' = idx + 1
                 /\ UNCHANGED <<pc, inp, hist>>
            [] f.status = "raise" ->
                 /\ pc' = "idle" /\ inp' = <<>> /\ idx' = 0 /\ opt_bb' = <<>>
                 /\ hist' = Append(hist, Entry(p, None, None, TRUE))
            [] f.status = "hang" ->
                 /\ pc' = "hang"
                 /\ UNCHANGED <<inp, idx, opt_bb, hist>>

ConstfoldIter == Iterate("constfold")
CseIter == Iterate("cse")
StrengthReduceIter == Iterate("strength_reduce")
OptimiseIter == Iterate("optimise")

\* return opt_bb
PassReturn ==
    /\ pc \in Passes /\ idx > Len(inp)
    /\ blocks' = Append(blocks, opt_bb)
    /\ hist' = Append(hist, Entry(pc, None, None, FALSE))
    /\ pc' = "idle" /\ inp' = <<>> /\ idx' = 0 /\ opt_bb' = <<>>
    /\ UNCHANGED <<ops, consts>>

\* self.make_equal_to(value), called directly
Called(self, cs, value) ==
    LET r == make_equal_to(ops, cs, self, value) IN
    /\ ops' = r.ops
    /\ consts' = cs
    /\ UNCHANGED <<blocks, inp, idx, opt_bb>>
    /\ IF r.status = "hang"
       THEN pc' = "hang" /\ UNCHANGED hist
       ELSE /\ pc' = pc
            /\ hist' = Append(hist, Entry("make_equal_to", self, value, r.status = "raise"))

\* value is an Operation or a Constant that exists already
CallMakeEqualTo ==
    /\ pc = "idle" /\ Len(hist) < MaxCalls
    /\ \E o \in DOMAIN ops :
       \E value \in {OpRef(i) : i \in DOMAIN ops} \cup {ConstRef(i) : i \in DOMAIN consts} :
          Called(OpRef(o), consts, value)

\* value is Constant(v), a new object
CallMakeEqualToNew ==
    /\ pc = "idle" /\ Len(hist) < MaxCalls
    /\ \E o \in DOMAIN ops : \E v \in IntArgs :
          Called(OpRef(o), Append(consts, v), ConstRef(Len(consts) + 1))

\* every pass is applied to the block the previous pass returned
NextChain ==
    \/ Build
    \/ BuildShared
    \/ \E p \in Passes : PassCall(p, Len(blocks))
    \/ ConstfoldIter
    \/ CseIter
    \/ StrengthReduceIter
    \/ OptimiseIter
    \/ PassReturn

Spec == Init /\ [][NextChain]_vars

\* a pass is applied to any block the caller holds
NextAny ==
    \/ Build
    \/ BuildShared
    \/ \E p \in Passes : \E b \in DOMAIN blocks : PassCall(p, b)
    \/ ConstfoldIter
    \/ CseIter
    \/ StrengthReduceIter
    \/ OptimiseIter
    \/ PassReturn

SpecAny == Init /\ [][NextAny]_vars

\* direct calls of make_equal_to on dummy operations, as test_union_find makes them
NextUF ==
    \/ BuildDummy
    \/ CallMakeEqualTo
    \/ CallMakeEqualToNew

SpecUF == Init /\ [][NextUF]_vars

(* ------------------------- union-find claims --------------------------- *)
Resolves(o) == find(ops, OpRef(o))

\* the call that completed in this step, if it was a direct make_equal_to
DirectCall == Len(hist') = Len(hist) + 1 /\ hist'[Len(hist')].fn = "make_equal_to"

SameForwarding ==
    /\ DOMAIN ops' = DOMAIN ops
    /\ \A o \in DOMAIN ops :
          /\ ops'[o].forwarded = ops[o].forwarded
          /\ find(ops', OpRef(o)) = find(ops, OpRef(o))

\* C1: following forwarded references from any Operation ends at an
\* un-forwarded Operation or at a Constant, in every state the passes reach,
\* also when a pass is applied to a block an earlier pass has scanned.
C1_Acyclic == \A o \in DOMAIN ops : Resolves(o) # Diverge

\* C2: op.make_equal_to(c) with find(op) a Constant of value v and c a Constant
\* of another value fails with the assertion, and no forwarded field and no
\* find() result changes.
C2_ConflictRaises ==
    [][DirectCall =>
         LET e == hist'[Len(hist')]
             r == find(ops, e.self)
         IN (IsConstant(r) /\ IsConstant(e.value) /\ consts'[e.value.id] # consts[r.id])
               => (e.raised /\ SameForwarding)]_vars

C2_Witness ==
    /\ hist # <<>>
    /\ LET e == hist[Len(hist)]
           r == find(ops, e.self)
       IN /\ e.fn = "make_equal_to" /\ e.raised
          /\ IsConstant(r) /\ IsConstant(e.value)
          /\ consts[e.value.id] # consts[r.id]

\* C7: after a2.make_equal_to(a1) and a3.make_equal_to(a2) on three distinct
\* un-forwarded Operations, in either order, find() of all three is a1; when a
\* member is then made equal to a Constant c, find() of all three is c.
C7_Transitive ==
    Len(hist) >= 2 =>
       \A p \in {<<1, 2>>, <<2, 1>>} :
          LET u == hist[p[1]]      \* a2.make_equal_to(a1)
              w == hist[p[2]]      \* a3.make_equal_to(a2)
              class == {u.value, u.self, w.self}
          IN (IsOperation(u.value) /\ w.value = u.self /\ Cardinality(class) = 3) =>
                /\ ~u.raised /\ ~w.raised
                /\ Len(hist) = 2 => \A a \in class : find(ops, a) = u.value
                /\ (Len(hist) = 3 /\ hist[3].self \in class /\ IsConstant(hist[3].value))
                      => /\ ~hist[3].raised
                         /\ \A a \in class : find(ops, a) = hist[3].value

C7_Witness ==
    /\ Len(hist) = 3 /\ Len(ops) >= 3
    /\ hist[1] = Entry("make_equal_to", OpRef(3), OpRef(2), FALSE)
    /\ hist[2] = Entry("make_equal_to", OpRef(2), OpRef(1), FALSE)
    /\ hist[3].self = OpRef(3) /\ IsConstant(hist[3].value)
    /\ Resolves(1) = hist[3].value

\* C8: op.make_equal_to(c) with find(op) a Constant of value v and c a Constant
\* of the same value, the same object or another, does not raise and leaves
\* find() of every Operation as it was.
C8_Idempotent ==
    [][DirectCall =>
         LET e == hist'[Len(hist')]
             r == find(ops, e.self)
         IN (IsConstant(r) /\ IsConstant(e.value) /\ consts'[e.value.id] = consts[r.id])
               => (~e.raised /\ SameForwarding)]_vars

C8_Witness ==
    /\ hist # <<>>
    /\ LET e == hist[Len(hist)]
           r == find(ops, e.self)
       IN /\ e.fn = "make_equal_to" /\ ~e.raised
          /\ IsConstant(r) /\ IsConstant(e.value)
          /\ r # e.value /\ consts[e.value.id] = consts[r.id]

(* ----------------------------- pass claims ----------------------------- *)
\* two values are the same value: equal-valued Constants, or the identical object
SameValue(cs, a, b) ==
    \/ IsConstant(a) /\ IsConstant(b) /\ cs[a.id] = cs[b.id]
    \/ a = b

\* the emitted adds whose resolved arguments are pairwise a0 and a1, in this order
Matches(os, cs, bb, a0, a1) ==
    {e \in Range(bb) :
        /\ os[e].name = "add"
        /\ SameValue(cs, find(os, os[e].args[1]), a0)
        /\ SameValue(cs, find(os, os[e].args[2]), a1)}

Scanning(p) == pc = p /\ idx <= Len(inp)
Advanced == pc' = pc /\ inp' = inp /\ idx' = idx + 1
OthersKept(o) == \A q \in DOMAIN ops \ {o} : ops'[q] = ops[q]

EmittedUnchanged(o) ==
    opt_bb' = Append(opt_bb, o) /\ ops' = ops /\ consts' = consts

\* o is not emitted and only its forwarding changes
Dropped(o) ==
    /\ opt_bb' = opt_bb
    /\ DOMAIN ops' = DOMAIN ops
    /\ OthersKept(o)
    /\ ops'[o].name = ops[o].name /\ ops'[o].args = ops[o].args

\* find() of o is a new Constant of value v
FoldedTo(o, v) ==
    LET t == find(ops', OpRef(o)) IN
    /\ Dropped(o)
    /\ IsConstant(t) /\ t.id \notin DOMAIN consts /\ consts'[t.id] = v

\* find() of o is target, a value that existed before
UnitedWith(o, targets) ==
    /\ Dropped(o)
    /\ consts' = consts
    /\ find(ops', OpRef(o)) \in targets

\* a new lshift(a, 1) is emitted in o's place and find() of o is that lshift
ReplacedByShift(o, a) ==
    LET n == Len(ops) + 1 IN
    /\ DOMAIN ops' = 1 .. n
    /\ OthersKept(o)
    /\ opt_bb' = Append(opt_bb, n)
    /\ ops'[n].name = "lshift" /\ ops'[n].forwarded = None
    /\ Len(ops'[n].args) = 2 /\ ops'[n].args[1] = a
    /\ IsConstant(ops'[n].args[2])
    /\ ops'[n].args[2].id \notin DOMAIN consts
    /\ consts'[ops'[n].args[2].id] = 1
    /\ find(ops', OpRef(o)) = OpRef(n)

IsZero(a) == IsConstant(a) /\ consts[a.id] = 0
BothConstant(o) ==
    /\ ops[o].name = "add"
    /\ IsConstant(find(ops, ops[o].args[1]))
    /\ IsConstant(find(ops, ops[o].args[2]))
ArgSum(o) == consts[find(ops, ops[o].args[1]).id] + consts[find(ops, ops[o].args[2]).id]
Scanned == SubSeq(inp, 1, idx - 1)
Kept(o) == ops[o].forwarded = None

C3_Step ==
    Scanning("optimise") =>
       LET o == inp[idx]
           a0 == find(ops, ops[o].args[1])
           a1 == find(ops, ops[o].args[2])
           m == Matches(ops, consts, opt_bb, a0, a1)
       IN /\ Advanced
          /\ IF ops[o].name # "add" THEN EmittedUnchanged(o)
             ELSE IF IsConstant(a0) /\ IsConstant(a1) THEN FoldedTo(o, ArgSum(o))
             ELSE IF m # {} THEN UnitedWith(o, {OpRef(e) : e \in m})
             ELSE IF a0 = a1 THEN ReplacedByShift(o, a0)
             ELSE IF IsZero(a0) THEN UnitedWith(o, {a1})
             ELSE IF IsZero(a1) THEN UnitedWith(o, {a0})
             ELSE EmittedUnchanged(o)

\* C3: optimise scans the block once, in order, and treats each add by the
\* first rule that applies: fold two Constants to a new Constant, else unite
\* with an emitted add of equal resolved arguments, else replace x + x by a new
\* lshift(x, 1), else unite with the other argument when one is Constant 0,
\* else emit it unchanged; every other operation is emitted unchanged.
C3_FusedPriority == [][C3_Step]_vars

C3_Witness ==
    /\ pc = "optimise" /\ idx > Len(inp)
    /\ \E o \in Range(inp) : \E i \in {1, 2} :
          /\ ops[o].name = "add"
          /\ IsOperation(ops[o].forwarded)
          /\ ops[o].forwarded = find(ops, ops[o].args[3 - i])
          /\ IsOperation(ops[o].args[i]) /\ IsZero(find(ops, ops[o].args[i]))

C4_Step ==
    Scanning("constfold") =>
       LET o == inp[idx] IN
       /\ Advanced
       /\ IF BothConstant(o) THEN FoldedTo(o, ArgSum(o)) ELSE EmittedUnchanged(o)

C4_Block ==
    pc = "constfold" =>
       /\ opt_bb = SelectSeq(Scanned, LAMBDA o : ~BothConstant(o))
       /\ \A o \in Range(Scanned) :
             IF BothConstant(o)
             THEN IsConstant(Resolves(o)) /\ consts[Resolves(o).id] = ArgSum(o)
             ELSE Kept(o)

\* C4: constfold returns the input operations, in input order, without the
\* adds whose two resolved arguments are Constants when scanned; find() of a
\* removed add is a Constant whose value is the sum of the two, and no add
\* of the returned block has two Constant resolved arguments.
C4_Constfold == [][C4_Step /\ C4_Block']_vars

\* add(add(1, 1), 1) is folded through the folded add(1, 1)
C4_Witness ==
    /\ pc = "constfold" /\ idx > Len(inp)
    /\ \E o \in Range(inp) : \E i \in {1, 2} :
          /\ BothConstant(o)
          /\ IsOperation(ops[o].args[i]) /\ BothConstant(ops[o].args[i].id)
          /\ IsConstant(Resolves(o)) /\ consts[Resolves(o).id] = ArgSum(o)

C5_Step ==
    Scanning("cse") =>
       LET o == inp[idx]
           m == Matches(ops, consts, opt_bb,
                        find(ops, ops[o].args[1]), find(ops, ops[o].args[2]))
       IN /\ Advanced
          /\ IF ops[o].name = "add" /\ m # {}
             THEN UnitedWith(o, {OpRef(e) : e \in m})
             ELSE EmittedUnchanged(o)

C5_Block ==
    pc = "cse" =>
       /\ opt_bb = SelectSeq(Scanned, Kept)
       /\ \A o \in Range(Scanned) : ~Kept(o) => Resolves(o).id \in Range(opt_bb)
       /\ \A i \in DOMAIN opt_bb : \A j \in DOMAIN opt_bb :
             (i < j /\ ops[opt_bb[j]].name = "add") =>
                opt_bb[i] \notin Matches(ops, consts, opt_bb,
                                         find(ops, ops[opt_bb[j]].args[1]),
                                         find(ops, ops[opt_bb[j]].args[2]))

\* C5: common_subexpr_elimination drops an add exactly when an emitted add has
\* resolved arguments pairwise equal to its own, in the same order; find() of a
\* dropped add is that emitted add, every other operation is emitted unchanged
\* in input order, and no two adds of the returned block have pairwise-equal
\* resolved arguments.
C5_Cse == [][C5_Step /\ C5_Block']_vars

\* an add was dropped for an emitted add whose Constant argument is another object
C5_Witness ==
    /\ pc = "cse" /\ idx > Len(inp)
    /\ \E o \in Range(inp) :
          /\ ops[o].name = "add" /\ IsOperation(ops[o].forwarded)
          /\ ops[o].forwarded.id \in Range(opt_bb)
          /\ \E i \in {1, 2} :
                /\ IsConstant(ops[o].args[i])
                /\ ops[o].args[i] # ops[ops[o].forwarded.id].args[i]

C6_Step ==
    Scanning("strength_reduce") =>
       LET o == inp[idx]
           a0 == find(ops, ops[o].args[1])
           a1 == find(ops, ops[o].args[2])
       IN /\ Advanced
          /\ IF ops[o].name = "add" /\ a0 = a1
             THEN ReplacedByShift(o, a0)
             ELSE EmittedUnchanged(o)

C6_Block ==
    pc = "strength_reduce" =>
       /\ Len(opt_bb) = Len(Scanned)
       /\ \A i \in DOMAIN opt_bb :
             \/ opt_bb[i] = inp[i] /\ Kept(inp[i])
             \/ /\ ops[opt_bb[i]].name = "lshift"
                /\ ops[inp[i]].name = "add"
                /\ Resolves(inp[i]) = OpRef(opt_bb[i])

\* C6: strength_reduce replaces each add whose two resolved arguments are the
\* identical value by a new lshift(value, Constant 1) emitted at the add's
\* position, find() of the add is that lshift, and every other operation is
\* emitted unchanged: the returned block has the input's length and order.
C6_StrengthReduce == [][C6_Step /\ C6_Block']_vars

C6_Witness ==
    /\ pc = "strength_reduce" /\ idx > Len(inp)
    /\ \E i \in DOMAIN inp :
          /\ ops[opt_bb[i]].name = "lshift"
          /\ ops[inp[i]].forwarded = OpRef(opt_bb[i])
          /\ IsOperation(ops[opt_bb[i]].args[1])

(* --------------------------- whole-run claims -------------------------- *)
Returned == blocks[Len(blocks)]

\* C9: after each pass of a chain, every operation of the returned block is
\* un-forwarded and each of its resolved arguments is a Constant or an
\* Operation at an earlier position of the returned block, so bb_to_str of the
\* returned block meets no missing name.
C9_KeptValues ==
    /\ pc # "hang"
    /\ \A i \in DOMAIN hist : ~hist[i].raised
    /\ (pc = "idle" /\ Len(blocks) > 1) =>
          /\ \A i \in DOMAIN Returned :
                /\ Kept(Returned[i])
                /\ \A j \in DOMAIN ops[Returned[i]].args :
                      LET r == arg(ops, Returned[i], j) IN
                      \/ IsConstant(r)
                      \/ IsOperation(r) /\ \E k \in 1 .. (i - 1) : Returned[k] = r.id
          /\ bb_to_str(ops, consts, Returned).status = "ok"
          /\ Len(bb_to_str(ops, consts, Returned).lines) = Len(Returned)

\* the second pass of a chain returned a block in which a stored argument is a
\* forwarded operation
C9_Witness ==
    /\ pc = "idle" /\ Len(blocks) = 3 /\ blocks[3] # blocks[2]
    /\ \E o \in Range(Returned) : \E j \in DOMAIN ops[o].args :
          /\ IsOperation(ops[o].args[j]) /\ ~Kept(ops[o].args[j].id)
          /\ IsOperation(arg(ops, o, j))

\* the value of v: add is +, mul is *, lshift(x, k) is x * 2^k, and a getarg or
\* a dummy is the input env gives it; arguments are read through find() when
\* resolve is TRUE and as stored when it is FALSE
RECURSIVE Value(_, _, _, _, _)
Value(os, cs, env, v, resolve) ==
    IF IsConstant(v) THEN cs[v.id]
    ELSE LET op == os[v.id]
             A(i) == Value(os, cs, env,
                           IF resolve THEN find(os, op.args[i]) ELSE op.args[i],
                           resolve)
         IN CASE op.name = "add" -> A(1) + A(2)
              [] op.name = "mul" -> A(1) * A(2)
              [] op.name = "lshift" -> A(1) * 2^A(2)
              [] OTHER -> env[v.id]

Opaque == {o \in DOMAIN ops : ops[o].name \in {"getarg", "dummy"}}

\* C10: when a pass has scanned its block then, under every assignment of the
\* inputs, find() of each input operation is a Constant or an operation of
\* the output block, and its value, evaluated through resolved arguments, is
\* the value the input operation computes from its stored arguments.
C10_Preserved ==
    /\ pc # "hang"
    /\ (pc \in Passes /\ idx > Len(inp)) =>
          /\ \A o \in Range(inp) : IsConstant(Resolves(o)) \/ Resolves(o).id \in Range(opt_bb)
          /\ \A env \in [Opaque -> InputVals] : \A o \in Range(inp) :
                Value(ops, consts, env, Resolves(o), TRUE)
                   = Value(ops, consts, env, OpRef(o), FALSE)

\* optimise replaced x + x by a shift and a later mul reads it
C10_Witness ==
    /\ pc = "optimise" /\ idx > Len(inp)
    /\ \E o \in Range(inp) : \E q \in Range(opt_bb) :
          /\ ops[o].name = "add" /\ IsOperation(Resolves(o))
          /\ ops[Resolves(o).id].name = "lshift"
          /\ ops[q].name = "mul" /\ ops[q].args[1] = OpRef(o)

=============================================================================
